---- MODULE Spec2Model ----
(***************************************************************************)
(* Model of fplai_streamlit_app.py: the "Generate My Optimal Squad" flow.  *)
(*                                                                         *)
(*   fetch_live_fpl_data -> engineer_features ->                           *)
(*   create_simulated_prediction -> optimize_squad ->                      *)
(*   get_starting_lineup -> display                                        *)
(*                                                                         *)
(* Numbers.  The FPL API delivers form, ep_next and ict_index as decimal   *)
(* strings with one decimal; the model keeps them as integer tenths        *)
(* ("2.5" is 25), and now_cost is already an integer number of tenths.     *)
(* A float is [nan, v]: nan = TRUE is NaN, otherwise the value is v.       *)
(* xP is kept as an exact fraction: every player of one scored pool has    *)
(* the same denominator xP_den, so [nan, v] holds the numerator.           *)
(***************************************************************************)
EXTENDS Integers, Sequences, FiniteSets, TLC

VARIABLES
    pc,                 \* position of the main flow
    players_df,         \* the raw pool: id -> raw player record
    available_players,  \* engineer_features' result: id -> cleaned record
    xP,                 \* the xP column: id -> [nan, v] (numerator over xP_den)
    xP_den,             \* common denominator of the xP column
    final_squad,        \* optimize_squad's result: a set of ids
    squad_df,           \* get_starting_lineup: the squad sorted by xP, a sequence of ids
    seed_i,             \* get_starting_lineup: index of the next position to seed
    starting_11,        \* get_starting_lineup: sequence of ids
    remaining_players,  \* get_starting_lineup: sequence of ids
    bench,              \* get_starting_lineup: sequence of ids
    announced           \* st.success("Optimal Squad Found ...") was shown

vars == <<pc, players_df, available_players, xP, xP_den, final_squad, squad_df,
          seed_i, starting_11, remaining_players, bench, announced>>

(***************************************************************************)
(* Bounds of the model.                                                    *)
(***************************************************************************)
\* Players 1..NumVar of the roster take their raw fields from Profiles in Init.
NumVar == 2
\* When the solver ends without an optimum the values it leaves in the
\* variables are arbitrary; the model explores the selections that hold at
\* most MaxJunk players.
MaxJunk == 1

(***************************************************************************)
(* Program constants.                                                      *)
(***************************************************************************)
Budget == 1000
SquadSize == 15
ClubCap == 3
LineupSize == 11
BenchCols == 4

\* positions_df.set_index('id')['singular_name_short']
PositionName == <<"GKP", "DEF", "MID", "FWD">>

\* the position quotas of optimize_squad
Quota == ("GKP" :> 2) @@ ("DEF" :> 5) @@ ("MID" :> 5) @@ ("FWD" :> 3)

\* positions = {'GKP': 1, 'DEF': 3, 'MID': 2, 'FWD': 1}, in insertion order
SeedOrder == <<"GKP", "DEF", "MID", "FWD">>
SeedCount == ("GKP" :> 1) @@ ("DEF" :> 3) @@ ("MID" :> 2) @@ ("FWD" :> 1)

(***************************************************************************)
(* Small helpers.                                                          *)
(***************************************************************************)
Num(n) == [nan |-> FALSE, v |-> n]
NaN == [nan |-> TRUE, v |-> 0]

Range(s) == {s[i] : i \in DOMAIN s}

RECURSIVE SumOver(_, _)
SumOver(S, f) ==
    IF S = {} THEN 0
    ELSE LET p == CHOOSE q \in S : TRUE
         IN f[p] + SumOver(S \ {p}, f)

Max2(a, b) == IF a >= b THEN a ELSE b
Abs(a) == IF a >= 0 THEN a ELSE -a

\* a raw text field of the API: a decimal string, or something that is no number
Txt(n) == [kind |-> "num", tenths |-> n]
BadTxt == [kind |-> "bad", tenths |-> 0]

(***************************************************************************)
(* The raw pools Init draws from.  The roster fixes id, team and           *)
(* element_type of 18 players (2 GKP, 7 DEF, 6 MID, 3 FWD over 6 clubs);   *)
(* ict_index of the fixed players is "0.0".                                *)
(***************************************************************************)
P(id, team, et, cost, form, ep) ==
    [id |-> id, team |-> team, element_type |-> et, now_cost |-> cost,
     status |-> "a", minutes |-> 900,
     form |-> Txt(form), ep_next |-> Txt(ep), ict_index |-> Txt(0)]

Roster ==
    << P(1, 1, 1, 50, 40, 40),  P(2, 1, 3, 65, 60, 55),  P(3, 2, 4, 60, 50, 45),
       P(4, 3, 1, 45, 30, 35),
       P(5, 1, 2, 55, 50, 50),  P(6, 2, 2, 50, 40, 45),  P(7, 3, 2, 45, 35, 30),
       P(8, 4, 2, 40, 20, 25),  P(9, 5, 2, 40, 20, 25),  P(10, 6, 2, 60, 55, 60),
       P(11, 4, 2, 45, 30, 20),
       P(12, 1, 3, 75, 70, 65), P(13, 3, 3, 50, 30, 40), P(14, 4, 3, 45, 25, 30),
       P(15, 5, 3, 40, 10, 15), P(16, 6, 3, 55, 45, 50),
       P(17, 5, 4, 70, 60, 70), P(18, 6, 4, 45, 20, 20) >>

Profiles ==
    { [status |-> "a", minutes |-> 900, now_cost |-> 90,
       form |-> Txt(80), ep_next |-> Txt(90), ict_index |-> Txt(100)],
      [status |-> "a", minutes |-> 900, now_cost |-> 300,
       form |-> Txt(95), ep_next |-> Txt(99), ict_index |-> Txt(150)],
      [status |-> "a", minutes |-> 90, now_cost |-> 40,
       form |-> Txt(-20), ep_next |-> Txt(-10), ict_index |-> Txt(0)],
      [status |-> "i", minutes |-> 900, now_cost |-> 50,
       form |-> Txt(90), ep_next |-> Txt(95), ict_index |-> Txt(120)],
      [status |-> "a", minutes |-> 0, now_cost |-> 40,
       form |-> Txt(90), ep_next |-> Txt(95), ict_index |-> Txt(0)],
      [status |-> "a", minutes |-> 900, now_cost |-> 50,
       form |-> BadTxt, ep_next |-> Txt(50), ict_index |-> Txt(50)] }

WithProfile(r, pr) ==
    [r EXCEPT !.status = pr.status, !.minutes = pr.minutes, !.now_cost = pr.now_cost,
              !.form = pr.form, !.ep_next = pr.ep_next, !.ict_index = pr.ict_index]

RawPools ==
    { [i \in DOMAIN Roster |->
          IF i <= NumVar THEN WithProfile(Roster[i], choice[i]) ELSE Roster[i]]
      : choice \in [1..NumVar -> Profiles] }

Empty == [i \in {} |-> 0]

Init ==
    /\ pc = "start"
    /\ players_df \in RawPools
    /\ available_players = Empty
    /\ xP = Empty
    /\ xP_den = 1
    /\ final_squad = {}
    /\ squad_df = <<>>
    /\ seed_i = 1
    /\ starting_11 = <<>>
    /\ remaining_players = <<>>
    /\ bench = <<>>
    /\ announced = FALSE

(***************************************************************************)
(* fetch_live_fpl_data and the branch on its result.                       *)
(***************************************************************************)
FetchOk ==
    /\ pc = "start"
    /\ pc' = "fetched"
    /\ UNCHANGED <<players_df, available_players, xP, xP_den, final_squad, squad_df,
                   seed_i, starting_11, remaining_players, bench, announced>>

\* requests raised: players is None, st.error, nothing else runs
FetchFailed ==
    /\ pc = "start"
    /\ pc' = "load_failed"
    /\ UNCHANGED <<players_df, available_players, xP, xP_den, final_squad, squad_df,
                   seed_i, starting_11, remaining_players, bench, announced>>

(***************************************************************************)
(* engineer_features                                                       *)
(***************************************************************************)
\* pd.to_numeric(col, errors='coerce'): a number, or NaN for what does not parse
ToNumeric(t) == IF t.kind = "num" THEN Num(t.tenths) ELSE NaN

IsAvailableStatusOnly(r) == r.status = "a"
\* players_df['status'] == 'a', then available_players['minutes'] > 0
IsAvailable(r) == r.status = "a" /\ r.minutes > 0

Cleaned(r) ==
    [id |-> r.id, team |-> r.team, element_type |-> r.element_type,
     position |-> PositionName[r.element_type], now_cost |-> r.now_cost,
     status |-> r.status, minutes |-> r.minutes,
     form |-> ToNumeric(r.form), ep_next |-> ToNumeric(r.ep_next),
     ict_index |-> ToNumeric(r.ict_index)]

engineer_features(df) ==
    LET keep == {i \in DOMAIN df : IsAvailable(df[i])}
    IN [i \in keep |-> Cleaned(df[i])]

EngineerFeatures ==
    /\ pc = "fetched"
    /\ available_players' = engineer_features(players_df)
    /\ pc' = "engineered"
    /\ UNCHANGED <<players_df, xP, xP_den, final_squad, squad_df,
                   seed_i, starting_11, remaining_players, bench, announced>>

(***************************************************************************)
(* create_simulated_prediction                                             *)
(***************************************************************************)
\* player_df['ict_index'].max(): NaN entries are skipped; NaN when none is left
MaxIct(df) ==
    LET vals == {df[i].ict_index.v : i \in {j \in DOMAIN df : ~df[j].ict_index.nan}}
    IN IF vals = {} THEN NaN
       ELSE Num(CHOOSE m \in vals : \A w \in vals : w <= m)

\* the common denominator of the column: 100 * |max_ict| (1 when no score is a number)
Denominator(mx) == IF mx.nan \/ mx.v = 0 THEN 1 ELSE 100 * Abs(mx.v)

\* 0.6 * ep_next + 0.3 * form + 0.1 * (ict_index / max_ict) * 10, as numerator
\* over Denominator(max_ict); x / 0 is NaN for x = 0 and -inf for x < 0
\* (x > 0 cannot be below a maximum of 0), and -inf clips to 0 below.
RawScore(r, mx) ==
    IF r.ep_next.nan \/ r.form.nan \/ r.ict_index.nan \/ mx.nan THEN NaN
    ELSE IF mx.v = 0
         THEN (IF r.ict_index.v = 0 THEN NaN ELSE Num(-1))
         ELSE Num((6 * r.ep_next.v + 3 * r.form.v) * Abs(mx.v)
                  + 100 * r.ict_index.v * (IF mx.v > 0 THEN 1 ELSE -1))

\* Series.clip(0): NaN stays NaN
Clip0(x) == IF x.nan THEN x ELSE Num(Max2(x.v, 0))

create_simulated_prediction(df) ==
    LET max_ict == MaxIct(df)
    IN [i \in DOMAIN df |-> Clip0(RawScore(df[i], max_ict))]

CreateSimulatedPrediction ==
    /\ pc = "engineered"
    /\ xP' = create_simulated_prediction(available_players)
    /\ xP_den' = Denominator(MaxIct(available_players))
    /\ pc' = "predicted"
    /\ UNCHANGED <<players_df, available_players, final_squad, squad_df,
                   seed_i, starting_11, remaining_players, bench, announced>>

(***************************************************************************)
(* optimize_squad: the binary program and what prob.solve leaves behind.   *)
(***************************************************************************)
PlayersIn(df, pos) == {i \in DOMAIN df : df[i].position = pos}

KSubsets(S, k) == {T \in SUBSET S : Cardinality(T) = k}

RECURSIVE UpTo(_, _)
\* the subsets of S with at most k elements
UpTo(S, k) ==
    IF k = 0 THEN {{}}
    ELSE LET prev == UpTo(S, k - 1)
         IN prev \cup {T \cup {p} : T \in prev, p \in S}

\* the objective: lpSum(xP * player_var)
ObjectiveByCost(df, score, S) == SumOver(S, [i \in DOMAIN df |-> df[i].now_cost])
Objective(df, score, S) == SumOver(S, [i \in DOMAIN score |-> score[i].v])

\* lpSum(now_cost * player_var) <= 1000
BudgetUnchecked(df, S) == TRUE
BudgetConstraint(df, S) ==
    SumOver(S, [i \in DOMAIN df |-> df[i].now_cost]) <= Budget

\* lpSum(player_vars) == 15
SizeConstraint(S) == Cardinality(S) = SquadSize

\* for every team id of the pool: lpSum(player_var of the team) <= 3
ClubConstraint(df, S) ==
    \A t \in {df[i].team : i \in DOMAIN df} :
        Cardinality({i \in S : df[i].team = t}) <= ClubCap

\* the four position constraints: exactly 2 GKP, 5 DEF, 5 MID, 3 FWD.  The
\* selections that meet them are enumerated position by position.
QuotaSelections(df) ==
    { g \cup d \cup m \cup f :
        g \in KSubsets(PlayersIn(df, "GKP"), Quota["GKP"]),
        d \in KSubsets(PlayersIn(df, "DEF"), Quota["DEF"]),
        m \in KSubsets(PlayersIn(df, "MID"), Quota["MID"]),
        f \in KSubsets(PlayersIn(df, "FWD"), Quota["FWD"]) }

\* the selections that satisfy every constraint of the program
Feasible(df) ==
    { S \in QuotaSelections(df) :
        BudgetConstraint(df, S) /\ SizeConstraint(S) /\ ClubConstraint(df, S) }

\* LpMaximize: the feasible selections no other feasible selection beats
Optima(df, score) ==
    LET F == Feasible(df)
        val == [S \in F |-> Objective(df, score, S)]
    IN {S \in F : \A T \in F : val[T] <= val[S]}

HasNaN(score) == \E i \in DOMAIN score : score[i].nan

\* CBC proves an optimum: the players whose variable is 1 are one optimal
\* selection (which one, when several tie, is the solver's choice).
OptimizeSquadOptimal ==
    /\ pc = "predicted"
    /\ ~HasNaN(xP)
    /\ \E S \in Optima(available_players, xP) : final_squad' = S
    /\ pc' = "optimized"
    /\ UNCHANGED <<players_df, available_players, xP, xP_den, squad_df,
                   seed_i, starting_11, remaining_players, bench, announced>>

\* No optimum (the program is infeasible, or a coefficient is NaN): the
\* status of prob.solve is not read, and the players whose variable happens
\* to be 1 are returned.
OptimizeSquadNoOptimum ==
    /\ pc = "predicted"
    /\ HasNaN(xP) \/ Feasible(available_players) = {}
    /\ \E S \in UpTo(DOMAIN available_players, MaxJunk) : final_squad' = S
    /\ pc' = "optimized"
    /\ UNCHANGED <<players_df, available_players, xP, xP_den, squad_df,
                   seed_i, starting_11, remaining_players, bench, announced>>

\* A NaN coefficient can also make PuLP or the solver call raise.
OptimizeSquadRaises ==
    /\ pc = "predicted"
    /\ HasNaN(xP)
    /\ pc' = "crashed"
    /\ UNCHANGED <<players_df, available_players, xP, xP_den, final_squad, squad_df,
                   seed_i, starting_11, remaining_players, bench, announced>>

(***************************************************************************)
(* get_starting_lineup                                                     *)
(***************************************************************************)
RECURSIVE OrdersBy(_, _)
\* the orders of S by ascending rank; rows of equal rank in any order
\* (sort_values uses the default, unstable, quicksort)
OrdersBy(S, rank) ==
    IF S = {} THEN {<<>>}
    ELSE LET firsts == {p \in S : \A q \in S : rank[p] <= rank[q]}
         IN UNION {{<<p>> \o s : s \in OrdersBy(S \ {p}, rank)} : p \in firsts}

XpRankAscending(df, score) ==
    [i \in DOMAIN score |->
        IF score[i].nan THEN df[i].element_type ELSE score[i].v]
\* sort_values(by='xP', ascending=False): numbers descending, then the NaN
\* rows in their input order, which is optimize_squad's order by element_type
XpRank(df, score) ==
    [i \in DOMAIN score |->
        IF score[i].nan THEN df[i].element_type ELSE 0 - score[i].v]

\* sort_values(by='element_type')
TypeRank(df) == [i \in DOMAIN df |-> df[i].element_type]

InPos(df, s, pos) == SelectSeq(s, LAMBDA i : df[i].position = pos)

\* DataFrame.head(n)
HeadN(s, n) == SubSeq(s, 1, IF Len(s) < n THEN Len(s) ELSE n)

\* DataFrame.drop(index): the rows of s whose label is not in gone
Drop(s, gone) == SelectSeq(s, LAMBDA i : i \notin gone)

\* squad_df = squad_df.sort_values(by='xP', ascending=False)
SortSquad ==
    /\ pc = "optimized"
    /\ squad_df' \in OrdersBy(final_squad, XpRank(available_players, xP))
    /\ starting_11' = <<>>
    /\ seed_i' = 1
    /\ pc' = "seeding"
    /\ UNCHANGED <<players_df, available_players, xP, xP_den, final_squad,
                   remaining_players, bench, announced>>

\* one iteration of: for pos, min_count in positions.items()
SeedPosition ==
    /\ pc = "seeding"
    /\ seed_i <= Len(SeedOrder)
    /\ LET pos == SeedOrder[seed_i]
           players_in_pos == InPos(available_players, squad_df, pos)
       IN starting_11' = starting_11 \o HeadN(players_in_pos, SeedCount[pos])
    /\ seed_i' = seed_i + 1
    /\ UNCHANGED <<pc, players_df, available_players, xP, xP_den, final_squad, squad_df,
                   remaining_players, bench, announced>>

\* remaining_players = squad_df.drop(starting_11.index)
DropSeeded ==
    /\ pc = "seeding"
    /\ seed_i > Len(SeedOrder)
    /\ remaining_players' = Drop(squad_df, Range(starting_11))
    /\ pc' = "filling"
    /\ UNCHANGED <<players_df, available_players, xP, xP_den, final_squad, squad_df,
                   seed_i, starting_11, bench, announced>>

CountPos(df, s, pos) == Len(InPos(df, s, pos))

CanAddAny(df, s, pos) == TRUE
CanAddTwoForwards(df, s, pos) ==
    \/ pos = "DEF" /\ CountPos(df, s, "DEF") < 5
    \/ pos = "MID" /\ CountPos(df, s, "MID") < 5
    \/ pos = "FWD" /\ CountPos(df, s, "FWD") < 2
\* the if / elif chain that sets can_add
CanAdd(df, s, pos) ==
    \/ pos = "DEF" /\ CountPos(df, s, "DEF") < 5
    \/ pos = "MID" /\ CountPos(df, s, "MID") < 5
    \/ pos = "FWD" /\ CountPos(df, s, "FWD") < 3

LoopStopsEarly(s, rest) == Len(s) < LineupSize - 1 /\ rest # <<>>
\* while len(starting_11) < 11 and not remaining_players.empty
LoopContinues(s, rest) == Len(s) < LineupSize /\ rest # <<>>

\* the body of the loop up to the concat: the head candidate joins when can_add
AddIfAllowed(df, s, rest) ==
    LET best_remaining == Head(rest)
        pos == df[best_remaining].position
    IN IF CanAdd(df, s, pos) THEN Append(s, best_remaining) ELSE s

KeepHead(rest) == rest
\* remaining_players = remaining_players.iloc[1:]
DropHead(rest) == Tail(rest)

\* one iteration of the while loop
FillStep ==
    /\ pc = "filling"
    /\ LoopContinues(starting_11, remaining_players)
    /\ starting_11' = AddIfAllowed(available_players, starting_11, remaining_players)
    /\ remaining_players' = DropHead(remaining_players)
    /\ UNCHANGED <<pc, players_df, available_players, xP, xP_den, final_squad, squad_df,
                   seed_i, bench, announced>>

\* bench = squad_df.drop(starting_11.index).sort_values(by='element_type');
\* return starting_11, bench
ReturnLineup ==
    /\ pc = "filling"
    /\ ~LoopContinues(starting_11, remaining_players)
    /\ bench' \in OrdersBy(Range(Drop(squad_df, Range(starting_11))),
                           TypeRank(available_players))
    /\ pc' = "lineup"
    /\ UNCHANGED <<players_df, available_players, xP, xP_den, final_squad, squad_df,
                   seed_i, starting_11, remaining_players, announced>>

(***************************************************************************)
(* The rest of the main flow: what is shown of the result.                 *)
(***************************************************************************)
\* st.success(f"Optimal Squad Found for Gameweek {current_gw}!")
Announce ==
    /\ pc = "lineup"
    /\ announced' = TRUE
    /\ pc' = "announced"
    /\ UNCHANGED <<players_df, available_players, xP, xP_den, final_squad, squad_df,
                   seed_i, starting_11, remaining_players, bench>>

\* captain = squad_sorted_by_xp.iloc[0]; vice_captain = squad_sorted_by_xp.iloc[1]
CaptaincyPicks ==
    /\ pc = "announced"
    /\ Cardinality(final_squad) >= 2
    /\ pc' = "captains"
    /\ UNCHANGED <<players_df, available_players, xP, xP_den, final_squad, squad_df,
                   seed_i, starting_11, remaining_players, bench, announced>>

\* iloc raises IndexError on a squad of fewer than two rows
CaptaincyIndexError ==
    /\ pc = "announced"
    /\ Cardinality(final_squad) < 2
    /\ pc' = "crashed"
    /\ UNCHANGED <<players_df, available_players, xP, xP_den, final_squad, squad_df,
                   seed_i, starting_11, remaining_players, bench, announced>>

\* the "Starting XI" cards: one per row of starting_11
DisplayStartingXI ==
    /\ pc = "captains"
    /\ pc' = "xi_shown"
    /\ UNCHANGED <<players_df, available_players, xP, xP_den, final_squad, squad_df,
                   seed_i, starting_11, remaining_players, bench, announced>>

\* the "Substitutes" cards: bench_cols[i] for each row of bench (four columns)
DisplaySubstitutes ==
    /\ pc = "xi_shown"
    /\ Len(bench) <= BenchCols
    /\ pc' = "done"
    /\ UNCHANGED <<players_df, available_players, xP, xP_den, final_squad, squad_df,
                   seed_i, starting_11, remaining_players, bench, announced>>

Next ==
    \/ FetchOk
    \/ FetchFailed
    \/ EngineerFeatures
    \/ CreateSimulatedPrediction
    \/ OptimizeSquadOptimal
    \/ OptimizeSquadNoOptimum
    \/ OptimizeSquadRaises
    \/ SortSquad
    \/ SeedPosition
    \/ DropSeeded
    \/ FillStep
    \/ ReturnLineup
    \/ Announce
    \/ CaptaincyPicks
    \/ CaptaincyIndexError
    \/ DisplayStartingXI
    \/ DisplaySubstitutes

Spec == Init /\ [][Next]_vars

(***************************************************************************)
(* get_starting_lineup as a function of its argument: the seeds, then the  *)
(* while loop run to its end.                                              *)
(***************************************************************************)
\* the for loop over positions.items(): the seeds of the positions from k on
RECURSIVE SeedsFrom(_, _, _)
SeedsFrom(df, sorted, k) ==
    IF k > Len(SeedOrder) THEN <<>>
    ELSE HeadN(InPos(df, sorted, SeedOrder[k]), SeedCount[SeedOrder[k]])
         \o SeedsFrom(df, sorted, k + 1)

\* the while loop, from a starting_11 and the remaining_players
RECURSIVE FillLoop(_, _, _)
FillLoop(df, s, rest) ==
    IF LoopContinues(s, rest)
    THEN FillLoop(df, AddIfAllowed(df, s, rest), DropHead(rest))
    ELSE s

\* starting_11 as returned, for a squad already sorted by xP
get_starting_lineup(df, sorted) ==
    LET seeds == SeedsFrom(df, sorted, 1)
    IN FillLoop(df, seeds, Drop(sorted, Range(seeds)))

(***************************************************************************)
(* get_starting_lineup on arbitrary squads.  The squads are drawn from a   *)
(* pool of 18 players (2 GKP, 6 DEF, 6 MID, 4 FWD): the first n[pos]       *)
(* players of every position, for every n.  The scores come from the       *)
(* pipeline: ep_next of player i is (Mult * i + Shift) mod 19, which is    *)
(* different for different players, form is 0 and ict_index is 1.0, so xP  *)
(* orders the players as ep_next does.                                     *)
(***************************************************************************)
MaxMult == 6
MaxShift == 2

LineupTypes == <<1, 2, 3, 4, 2, 3, 2, 3, 4, 1, 2, 3, 2, 3, 4, 2, 3, 4>>

LineupPool(mult, shift) ==
    [i \in DOMAIN LineupTypes |->
        [id |-> i, team |-> 1 + (i % 6), element_type |-> LineupTypes[i],
         now_cost |-> 50, status |-> "a", minutes |-> 900,
         form |-> Txt(0), ep_next |-> Txt((mult * i + shift) % 19),
         ict_index |-> Txt(10)]]

\* the first n players of a position, in id order
FirstOf(et, n) ==
    {i \in DOMAIN LineupTypes :
        /\ LineupTypes[i] = et
        /\ Cardinality({j \in 1..i : LineupTypes[j] = et}) <= n}

LineupSquads ==
    { FirstOf(1, n[1]) \cup FirstOf(2, n[2]) \cup FirstOf(3, n[3]) \cup FirstOf(4, n[4]) :
        n \in [1..4 -> 0..6] }

LineupInit ==
    /\ pc = "optimized"
    /\ \E mult \in 1..MaxMult, shift \in 0..MaxShift :
          players_df = LineupPool(mult, shift)
    /\ available_players = engineer_features(players_df)
    /\ xP = create_simulated_prediction(available_players)
    /\ xP_den = Denominator(MaxIct(available_players))
    /\ final_squad \in LineupSquads
    /\ squad_df = <<>>
    /\ seed_i = 1
    /\ starting_11 = <<>>
    /\ remaining_players = <<>>
    /\ bench = <<>>
    /\ announced = FALSE

LineupNext ==
    \/ SortSquad
    \/ SeedPosition
    \/ DropSeeded
    \/ FillStep
    \/ ReturnLineup

LineupSpec == LineupInit /\ [][LineupNext]_vars

(***************************************************************************)
(* Vocabulary of the claims, read off the raw pool.                        *)
(***************************************************************************)
Pool == DOMAIN available_players

RawPosition(i) == PositionName[players_df[i].element_type]

PosCount(S, pos) == Cardinality({i \in S : RawPosition(i) = pos})

SeqPosCount(s, pos) == Cardinality({k \in DOMAIN s : RawPosition(s[k]) = pos})

TotalCost(S) == SumOver(S, [i \in DOMAIN players_df |-> players_df[i].now_cost])

TotalScore(S) == SumOver(S, [i \in DOMAIN xP |-> xP[i].v])

\* 15 distinct players: 2 GKP, 5 DEF, 5 MID, 3 FWD
HasSquadShape(S) ==
    /\ Cardinality(S) = 15
    /\ PosCount(S, "GKP") = 2
    /\ PosCount(S, "DEF") = 5
    /\ PosCount(S, "MID") = 5
    /\ PosCount(S, "FWD") = 3

\* a squad of the pool within the budget, the quotas and the club cap
IsLegalSquad(S) ==
    /\ S \subseteq Pool
    /\ HasSquadShape(S)
    /\ TotalCost(S) <= 1000
    /\ \A i \in S : Cardinality({j \in S : players_df[j].team = players_df[i].team}) <= 3

LegalSquads ==
    LET Of(pos) == {i \in Pool : RawPosition(i) = pos}
    IN { S \in { g \cup d \cup m \cup f :
                   g \in KSubsets(Of("GKP"), 2), d \in KSubsets(Of("DEF"), 5),
                   m \in KSubsets(Of("MID"), 5), f \in KSubsets(Of("FWD"), 3) } :
         IsLegalSquad(S) }

ScoresDefined == \A i \in Pool : i \in DOMAIN xP /\ ~xP[i].nan

IsEligible(i) == players_df[i].status = "a" /\ players_df[i].minutes > 0

NoDuplicates(s) == \A j, k \in DOMAIN s : j # k => s[j] # s[k]

AfterSeeding == {"filling", "lineup", "announced", "captains", "xi_shown", "done"}
LineupReturned == {"lineup", "announced", "captains", "xi_shown", "done"}

(***************************************************************************)
(* C1                                                                      *)
(***************************************************************************)
\* C1 as stated: for every scored pool with at least 15 eligible players
\* that spans the four positions and at least 5 clubs, optimize_squad returns
\* 15 distinct players within the budget, with the exact quotas and at most
\* 3 players of any club.  (Stated for the pools whose scores are all numbers.)
C1_AnyLargePoolYieldsSquad ==
    ( /\ pc = "optimized"
      /\ ScoresDefined
      /\ Cardinality(Pool) >= 15
      /\ \A pos \in {"GKP", "DEF", "MID", "FWD"} : PosCount(Pool, pos) >= 1
      /\ Cardinality({players_df[i].team : i \in Pool}) >= 5 )
    => IsLegalSquad(final_squad)

\* C1 amended: for every scored pool in which every predicted score is a
\* number and at least one 15-player subset meets the budget, the quotas and
\* the club cap, optimize_squad returns such a subset.
C1_FeasiblePoolYieldsSquad ==
    (pc = "optimized" /\ ScoresDefined /\ LegalSquads # {})
    => IsLegalSquad(final_squad)

\* a squad was returned that uses the whole budget, from a pool in which the
\* budget and the club cap rule out quota-satisfying selections
C1_Witness ==
    /\ pc = "optimized"
    /\ ScoresDefined
    /\ IsLegalSquad(final_squad)
    /\ TotalCost(final_squad) = 1000
    /\ Cardinality(LegalSquads) < Cardinality(QuotaSelections(available_players))

(***************************************************************************)
(* C2                                                                      *)
(***************************************************************************)
\* C2: when no 15-player combination of the pool satisfies every constraint,
\* optimize_squad does not return a set of players as a squad and the caller
\* does not announce an optimal squad.  (Stated for the pools whose scores
\* are all numbers.)
C2_InfeasibleIsReported ==
    ((pc = "optimized" \/ announced) /\ ScoresDefined) => LegalSquads # {}

(***************************************************************************)
(* C3                                                                      *)
(***************************************************************************)
\* C3: when a feasible squad exists (and the scores are numbers, so that
\* totals exist), the total predicted score of the returned squad is at least
\* that of every 15-player subset within budget, quotas and club cap.
C3_SquadIsOptimal ==
    (pc = "optimized" /\ ScoresDefined /\ LegalSquads # {})
    => \A T \in LegalSquads : TotalScore(T) <= TotalScore(final_squad)

\* the returned squad beats a legal squad and ties with another one
C3_Witness ==
    /\ pc = "optimized"
    /\ ScoresDefined
    /\ IsLegalSquad(final_squad)
    /\ \E T \in LegalSquads : TotalScore(T) < TotalScore(final_squad)
    /\ \E T \in LegalSquads : T # final_squad /\ TotalScore(T) = TotalScore(final_squad)

(***************************************************************************)
(* C4                                                                      *)
(***************************************************************************)
\* C4: for a squad of 15 distinct players with 2 GKP / 5 DEF / 5 MID / 3 FWD,
\* get_starting_lineup returns 11 starters and 4 bench players that partition
\* the squad: nobody twice, nobody in both, nobody omitted, nobody added.
C4_LineupPartitionsSquad ==
    (pc \in LineupReturned /\ HasSquadShape(final_squad))
    => /\ Len(starting_11) = 11
       /\ Len(bench) = 4
       /\ NoDuplicates(starting_11)
       /\ NoDuplicates(bench)
       /\ Range(starting_11) \cap Range(bench) = {}
       /\ Range(starting_11) \cup Range(bench) = final_squad

\* a lineup was returned for a 2/5/5/3 squad, after a goalkeeper was passed over
C4_Witness ==
    /\ pc = "lineup"
    /\ HasSquadShape(final_squad)
    /\ Len(starting_11) = 11
    /\ \E k \in DOMAIN bench : RawPosition(bench[k]) = "GKP"

(***************************************************************************)
(* C5                                                                      *)
(***************************************************************************)
\* C5: the starting eleven never holds more than 1 goalkeeper, 5 defenders,
\* 5 midfielders or 3 forwards, and for a 2/5/5/3 squad it holds, at every
\* step after seeding and in the result, exactly 1 goalkeeper, 3 to 5
\* defenders, 2 to 5 midfielders and 1 to 3 forwards.
C5_FormationBounds ==
    /\ SeqPosCount(starting_11, "GKP") <= 1
    /\ SeqPosCount(starting_11, "DEF") <= 5
    /\ SeqPosCount(starting_11, "MID") <= 5
    /\ SeqPosCount(starting_11, "FWD") <= 3
    /\ (pc \in AfterSeeding /\ HasSquadShape(final_squad))
       => /\ SeqPosCount(starting_11, "GKP") = 1
          /\ SeqPosCount(starting_11, "DEF") >= 3
          /\ SeqPosCount(starting_11, "MID") >= 2
          /\ SeqPosCount(starting_11, "FWD") >= 1

\* in the middle of the fill loop of a 2/5/5/3 squad, the next candidate
\* being the second goalkeeper
C5_Witness ==
    /\ pc = "filling"
    /\ HasSquadShape(final_squad)
    /\ Len(starting_11) \in 8..10
    /\ remaining_players # <<>>
    /\ RawPosition(Head(remaining_players)) = "GKP"

(***************************************************************************)
(* C6                                                                      *)
(***************************************************************************)
\* C6: no player whose status is not 'a' or who has zero minutes is in the
\* scored pool, in the squad, in the starting eleven or on the bench.
C6_OnlyEligiblePlayers ==
    \A i \in Pool \cup DOMAIN xP \cup final_squad \cup Range(squad_df)
             \cup Range(starting_11) \cup Range(remaining_players) \cup Range(bench) :
        IsEligible(i)

\* a lineup was returned for a full squad although the raw pool held a player
\* who is not eligible
C6_Witness ==
    /\ pc = "lineup"
    /\ HasSquadShape(final_squad)
    /\ Len(starting_11) = 11
    /\ \E i \in DOMAIN players_df : ~IsEligible(i)

(***************************************************************************)
(* C7                                                                      *)
(***************************************************************************)
\* C7: after create_simulated_prediction every player of the scored pool has
\* a defined xP >= 0, also when a raw field failed numeric parsing.  (Stated
\* for the pools whose largest ict_index is positive; C8 is the other case.)
C7_ScoresDefinedNonNegative ==
    ( /\ pc = "predicted"
      /\ \E i \in Pool : players_df[i].ict_index.kind = "num"
                         /\ players_df[i].ict_index.tenths > 0 )
    => \A i \in Pool : i \in DOMAIN xP /\ ~xP[i].nan /\ xP[i].v >= 0

(***************************************************************************)
(* C8                                                                      *)
(***************************************************************************)
\* C8: when the largest ict_index of the pool is zero (and every field
\* parses), each score is max(0, 0.6 * ep_next + 0.3 * form): 100 * xP is
\* max(0, 6 * ep_next + 3 * form) in tenths.
C8_ZeroMaxIctGuarded ==
    ( /\ pc = "predicted"
      /\ Pool # {}
      /\ \A i \in Pool : /\ players_df[i].form.kind = "num"
                         /\ players_df[i].ep_next.kind = "num"
                         /\ players_df[i].ict_index.kind = "num"
                         /\ players_df[i].ict_index.tenths = 0 )
    => \A i \in Pool :
          /\ ~xP[i].nan
          /\ 100 * xP[i].v
               = xP_den * Max2(0, 6 * players_df[i].ep_next.tenths
                                  + 3 * players_df[i].form.tenths)

(***************************************************************************)
(* C10                                                                     *)
(***************************************************************************)
\* C10: get_starting_lineup does not return, and the page does not show, a
\* starting eleven of fewer than 11 players as a lineup.
C10_ShortLineupReported ==
    pc \in LineupReturned => Len(starting_11) >= 11

(***************************************************************************)
(* Vocabulary of the lineup claims.                                        *)
(***************************************************************************)
CountOf(raw, E, pos) == Cardinality({i \in E : PositionName[raw[i].element_type] = pos})

\* exactly 1 GKP, 3-5 DEF, 2-5 MID, 1-3 FWD, eleven players
SatisfiesFormation(raw, E) ==
    /\ Cardinality(E) = 11
    /\ CountOf(raw, E, "GKP") = 1
    /\ CountOf(raw, E, "DEF") >= 3 /\ CountOf(raw, E, "DEF") <= 5
    /\ CountOf(raw, E, "MID") >= 2 /\ CountOf(raw, E, "MID") <= 5
    /\ CountOf(raw, E, "FWD") >= 1 /\ CountOf(raw, E, "FWD") <= 3

\* 2 GKP, 5 DEF, 5 MID, 3 FWD
IsValidShape(raw, S) ==
    /\ Cardinality(S) = 15
    /\ CountOf(raw, S, "GKP") = 2
    /\ CountOf(raw, S, "DEF") = 5
    /\ CountOf(raw, S, "MID") = 5
    /\ CountOf(raw, S, "FWD") = 3

\* every eleven of a squad of 15 that satisfies the formation bounds
FormationElevens(raw, S) ==
    {E \in {S \ B : B \in {T \in UpTo(S, 4) : Cardinality(T) = 4}} :
        SatisfiesFormation(raw, E)}

TotalOf(score, E) == SumOver(E, [i \in DOMAIN score |-> score[i].v])

Min2(a, b) == IF a <= b THEN a ELSE b

\* how many players the for loop seeded: up to 1 GKP, 3 DEF, 2 MID, 1 FWD
SeededCount ==
    Min2(SeqPosCount(squad_df, "GKP"), 1) + Min2(SeqPosCount(squad_df, "DEF"), 3)
    + Min2(SeqPosCount(squad_df, "MID"), 2) + Min2(SeqPosCount(squad_df, "FWD"), 1)

\* the unseeded players, in the order of the sorted squad
Unseeded ==
    LET seeds == Range(SubSeq(starting_11, 1, SeededCount))
    IN SelectSeq(squad_df, LAMBDA i : i \notin seeds)

\* the iterations of the fill loop so far, and the candidates they considered
IterationsDone == Len(Unseeded) - Len(remaining_players)
Considered == SubSeq(Unseeded, 1, IterationsDone)

\* in and after the loop: the remaining list is what is left of the unseeded
\* players after one candidate per iteration, no considered candidate is in
\* it, the added ones are considered ones in their order, and unless the
\* eleven is full or no candidate remains another step can be taken
FillLoopState ==
    /\ pc = "filling" \/ pc = "lineup" =>
          /\ IterationsDone >= 0 /\ IterationsDone <= Len(Unseeded)
          /\ remaining_players = SubSeq(Unseeded, IterationsDone + 1, Len(Unseeded))
          /\ \A k \in DOMAIN Considered : Considered[k] \notin Range(remaining_players)
          /\ SubSeq(starting_11, SeededCount + 1, Len(starting_11))
               = SelectSeq(Considered, LAMBDA i : i \in Range(starting_11))
    /\ pc = "filling" => ENABLED <<FillStep \/ ReturnLineup>>_vars
    /\ pc = "lineup" => Len(starting_11) = 11 \/ remaining_players = <<>>

\* a step taken in the loop: an iteration exactly when the eleven is short
\* and a candidate remains, which removes the head candidate, added or not;
\* otherwise the return
FillLoopStep ==
    pc = "filling" =>
        IF Len(starting_11) < 11 /\ remaining_players # <<>>
        THEN /\ pc' = "filling"
             /\ remaining_players' = Tail(remaining_players)
             /\ \/ starting_11' = starting_11
                \/ starting_11' = Append(starting_11, Head(remaining_players))
        ELSE /\ pc' = "lineup"
             /\ starting_11' = starting_11

\* C12: for every input squad (any size, any mix of positions) the fill loop
\* of get_starting_lineup terminates: each iteration removes the head
\* candidate whether it was added or skipped, a skipped candidate is never
\* reconsidered, the loop stops exactly when the eleven has 11 players or no
\* candidate remains, after at most as many iterations as there were
\* unseeded players.
C12_FillLoopTerminates == []FillLoopState /\ [][FillLoopStep]_vars

\* the loop ended with a full eleven for a squad of more than 15 players,
\* having skipped a defender, with candidates it never looked at
C12_Witness ==
    /\ pc = "lineup"
    /\ Cardinality(final_squad) > 15
    /\ Len(starting_11) = 11
    /\ remaining_players # <<>>
    /\ \E k \in DOMAIN Considered :
          /\ RawPosition(Considered[k]) = "DEF"
          /\ Considered[k] \notin Range(starting_11)

(***************************************************************************)
(* C13                                                                     *)
(***************************************************************************)
IsOutfield(i) == RawPosition(i) # "GKP"

\* the players the fill loop added, in the order it added them
Filled == SubSeq(starting_11, SeededCount + 1, Len(starting_11))

\* C13: for every valid squad of 2 GKP / 5 DEF / 5 MID / 3 FWD the fill loop
\* never rejects a defender, midfielder or forward: a candidate it skips is
\* the second goalkeeper.  The four fill slots go to the four highest-scoring
\* unseeded outfield players in score order, and the bench holds exactly the
\* lower-scoring goalkeeper and the three lowest-scoring unseeded outfield
\* players.
C13_OnlySecondKeeperSkipped ==
    IsValidShape(players_df, final_squad) =>
       /\ pc = "filling" \/ pc = "lineup" =>
             \A k \in DOMAIN Considered :
                IsOutfield(Considered[k]) => Considered[k] \in Range(starting_11)
       /\ pc = "lineup" /\ (\A i \in final_squad : ~xP[i].nan) =>
             /\ Len(Filled) = 4
             /\ \A k \in DOMAIN Filled : IsOutfield(Filled[k])
             /\ \A j, k \in DOMAIN Filled : j < k => xP[Filled[j]].v >= xP[Filled[k]].v
             /\ Len(bench) = 4 /\ NoDuplicates(bench)
             /\ Range(bench) = final_squad \ Range(starting_11)
             /\ SeqPosCount(bench, "GKP") = 1
             /\ \A b \in Range(bench) :
                   IF IsOutfield(b)
                   THEN \A k \in DOMAIN Filled : xP[b].v <= xP[Filled[k]].v
                   ELSE \A t \in Range(starting_11) :
                           ~IsOutfield(t) => xP[b].v <= xP[t].v

\* a lineup was returned for a valid squad whose second goalkeeper was a
\* candidate of the loop and was skipped
C13_Witness ==
    /\ pc = "lineup"
    /\ IsValidShape(players_df, final_squad)
    /\ Len(bench) = 4
    /\ \E k \in DOMAIN Considered :
          /\ ~IsOutfield(Considered[k])
          /\ Considered[k] \notin Range(starting_11)
          /\ \E j \in DOMAIN Filled : xP[Considered[k]].v > xP[Filled[j]].v
====
